---- MODULE Spec2Model ----
(***************************************************************************)
(* Model of the sanitize service (services/sanitize-svc/app/main_simple.py) *)
(* and of the helpers of its Presidio variant (app/main.py).               *)
(*                                                                         *)
(* A Python str is modelled as a sequence of one-character strings, so     *)
(* that slicing, concatenation and regular-expression matching are         *)
(* computed character by character, as the code computes them.             *)
(***************************************************************************)
EXTENDS Integers, Sequences, FiniteSets, TLC

VARIABLES req, preview_response, apply_response, recognizers_response

svc_vars == <<req, preview_response, apply_response, recognizers_response>>

\* the RAG query pipeline (rag-svc): the deployed app, the request, the
\* position in rag_query, its locals q and answer, the calls made so far
\* and the response
VARIABLES rag_app, rag_req, rag_pc, rag_q, rag_answer, rag_log, rag_response

rag_vars == <<rag_app, rag_req, rag_pc, rag_q, rag_answer, rag_log, rag_response>>

\* files-svc: the name given to a route and the route's answer
VARIABLES name, files_response

files_vars == <<name, files_response>>

\* sanitize-svc, Presidio variant (main.py): the module globals _analyzer and
\* _anonymizer, whether the server accepts requests, and for each thread its
\* position, the engines it built, its outcome; the steps taken so far
VARIABLES _analyzer, _anonymizer, serving, pc, built, outcome, steps

presidio_vars == <<_analyzer, _anonymizer, serving, pc, built, outcome, steps>>

\* sanitize-svc over several calls: the module global PATTERNS as the
\* process holds it, and the calls answered so far
VARIABLES pattern_table, calls

calls_vars == <<pattern_table, calls>>

ext_vars == <<files_vars, presidio_vars, calls_vars>>

vars == <<svc_vars, rag_vars, ext_vars>>

----------------------------------------------------------------------------
(* Characters and the character classes of Python's re module (ASCII).     *)

UpperSeq == <<"A","B","C","D","E","F","G","H","I","J","K","L","M",
              "N","O","P","Q","R","S","T","U","V","W","X","Y","Z">>
LowerSeq == <<"a","b","c","d","e","f","g","h","i","j","k","l","m",
              "n","o","p","q","r","s","t","u","v","w","x","y","z">>

Upper == {UpperSeq[i] : i \in DOMAIN UpperSeq}
Lower == {LowerSeq[i] : i \in DOMAIN LowerSeq}
Digit == {"0","1","2","3","4","5","6","7","8","9"}

\* [A-HJ-NP-TV-Z]
DniLetter == Upper \ {"I", "O", "U"}

\* \s
Space == {" ", "\t", "\n", "\r", "\f"}

\* \w : the characters between which \b finds no boundary
\* letters outside ASCII that the texts use: \w of a str pattern matches them
Accented == {"á", "ó", "ú"}

WordChar == Upper \cup Lower \cup Digit \cup {"_"} \cup Accented

\* str.swapcase on one character: the other case of a letter, else itself
SwapCase(c) ==
    IF c \in Upper THEN LowerSeq[CHOOSE i \in DOMAIN UpperSeq : UpperSeq[i] = c]
    ELSE IF c \in Lower THEN UpperSeq[CHOOSE i \in DOMAIN LowerSeq : LowerSeq[i] = c]
    ELSE c

\* a character class compiled under re.IGNORECASE: closed under case
IgnoreCase(cls) == cls \cup {SwapCase(c) : c \in cls}

----------------------------------------------------------------------------
(* Regular expressions, compiled with re.IGNORECASE: a pattern is a        *)
(* sequence of items, each a word boundary or a character class with a     *)
(* greedy repetition lo..hi (unbounded when more is TRUE).                 *)

WordB == [kind |-> "b", cls |-> {}, lo |-> 0, hi |-> 0, more |-> FALSE]
Rep(cls, lo, hi) ==
    [kind |-> "c", cls |-> IgnoreCase(cls), lo |-> lo, hi |-> hi, more |-> FALSE]
AtLeast(cls, lo) ==
    [kind |-> "c", cls |-> IgnoreCase(cls), lo |-> lo, hi |-> lo, more |-> TRUE]
One(cls) == Rep(cls, 1, 1)
Opt(cls) == Rep(cls, 0, 1)
Lit(c) == Rep({c}, 1, 1)

\* the character after position pos (positions count consumed characters)
IsWordAt(text, i) == i >= 1 /\ i <= Len(text) /\ text[i] \in WordChar

\* \b at position pos: exactly one of the neighbours is a word character
Boundary(text, pos) == IsWordAt(text, pos) # IsWordAt(text, pos + 1)

\* how many consecutive characters from pos lie in the item's class, up to hi
RECURSIVE RunLen(_, _, _, _)
RunLen(text, item, pos, n) ==
    IF (~item.more /\ n >= item.hi) \/ pos + n + 1 > Len(text) THEN n
    ELSE IF text[pos + n + 1] \in item.cls THEN RunLen(text, item, pos, n + 1)
    ELSE n

\* backtracking match of items k.. of re at pos: the end position, or -1
RECURSIVE MatchFrom(_, _, _, _)
RECURSIVE TryCount(_, _, _, _, _)
MatchFrom(text, re, k, pos) ==
    IF k > Len(re) THEN pos
    ELSE IF re[k].kind = "b"
         THEN IF Boundary(text, pos) THEN MatchFrom(text, re, k + 1, pos) ELSE -1
         ELSE TryCount(text, re, k, pos, RunLen(text, re[k], pos, 0))

\* greedy: the longest repetition first, then one character less; a count
\* after which the next item cannot take its first character is skipped
TryCount(text, re, k, pos, n) ==
    IF n < re[k].lo THEN -1
    ELSE IF k < Len(re) /\ re[k + 1].lo > 0
            /\ (pos + n + 1 > Len(text) \/ text[pos + n + 1] \notin re[k + 1].cls)
         THEN TryCount(text, re, k, pos, n - 1)
    ELSE LET e == MatchFrom(text, re, k + 1, pos + n)
         IN IF e >= 0 THEN e ELSE TryCount(text, re, k, pos, n - 1)

\* the matches found from pos on among those that exist at any position
\* (found: pairs of start and end): the leftmost, then on from its end
RECURSIVE Leftmost(_, _)
Leftmost(found, pos) ==
    LET later == {m \in found : m[1] >= pos}
    IN IF later = {} THEN <<>>
       ELSE LET m == CHOOSE c \in later : \A d \in later : c[1] <= d[1]
            IN <<[start |-> m[1], end |-> m[2]]>>
               \o Leftmost(later, IF m[2] = m[1] THEN m[1] + 1 ELSE m[2])

\* re.finditer: leftmost non-overlapping matches, scanning left to right
finditer(re, text, pos) ==
    Leftmost({m \in {<<p, MatchFrom(text, re, 1, p)>> : p \in pos..Len(text)} : m[2] >= 0},
             pos)

----------------------------------------------------------------------------
(* PATTERNS: the recognizers, in the order of the dict.                    *)

EMAIL == <<"E","M","A","I","L">>
PHONE == <<"P","H","O","N","E">>
SSN == <<"S","S","N">>
CREDIT_CARD == <<"C","R","E","D","I","T","_","C","A","R","D">>
DNI_ES == <<"D","N","I","_","E","S">>
IBAN_ES == <<"I","B","A","N","_","E","S">>
OPENAI_KEY == <<"O","P","E","N","A","I","_","K","E","Y">>

Alnum == Upper \cup Lower \cup Digit

PATTERNS == <<
    [key |-> EMAIL,
     pattern |-> <<WordB, AtLeast(Alnum \cup {".", "_", "%", "+", "-"}, 1), Lit("@"),
                   AtLeast(Alnum \cup {".", "-"}, 1), Lit("."),
                   AtLeast(Upper \cup Lower \cup {"|"}, 2), WordB>>],
    [key |-> PHONE,
     pattern |-> <<WordB, Rep(Digit, 3, 3), Opt({"-", "."}), Rep(Digit, 3, 3),
                   Opt({"-", "."}), Rep(Digit, 4, 4), WordB>>],
    [key |-> SSN,
     pattern |-> <<WordB, Rep(Digit, 3, 3), Lit("-"), Rep(Digit, 2, 2), Lit("-"),
                   Rep(Digit, 4, 4), WordB>>],
    [key |-> CREDIT_CARD,
     pattern |-> <<WordB, Rep(Digit, 4, 4), Opt({"-"} \cup Space), Rep(Digit, 4, 4),
                   Opt({"-"} \cup Space), Rep(Digit, 4, 4), Opt({"-"} \cup Space),
                   Rep(Digit, 4, 4), WordB>>],
    [key |-> DNI_ES,
     pattern |-> <<WordB, Rep(Digit, 8, 8), One(DniLetter), WordB>>],
    [key |-> IBAN_ES,
     pattern |-> <<WordB, Lit("E"), Lit("S"), Rep(Digit, 2, 2),
                   Rep(Digit \cup Upper, 20, 20), WordB>>],
    [key |-> OPENAI_KEY,
     pattern |-> <<WordB, Lit("s"), Lit("k"), Lit("-"), AtLeast(Alnum, 10), WordB>>]
>>

----------------------------------------------------------------------------
(* Python values.                                                          *)

\* Optional[List[str]]
None == [is_none |-> TRUE, value |-> <<>>]
Some(v) == [is_none |-> FALSE, value |-> v]

\* truth value of an Optional[List[str]]: None and [] are false
Truthy(opt) == ~opt.is_none /\ opt.value # <<>>

Range(s) == {s[i] : i \in DOMAIN s}
Min(a, b) == IF a < b THEN a ELSE b

\* s[:n] and s[n:] for n >= 0; a slice bound beyond the end is clamped
SliceTo(s, n) == SubSeq(s, 1, Min(n, Len(s)))
SliceFrom(s, n) == SubSeq(s, Min(n, Len(s)) + 1, Len(s))

\* s * n
RECURSIVE Repeat(_, _)
Repeat(s, n) == IF n <= 0 THEN <<>> ELSE s \o Repeat(s, n - 1)

\* list.sort(key=start): stable, ascending
RECURSIVE InsertAsc(_, _)
InsertAsc(sorted, e) ==
    IF sorted = <<>> THEN <<e>>
    ELSE IF Head(sorted).start <= e.start THEN <<Head(sorted)>> \o InsertAsc(Tail(sorted), e)
    ELSE <<e>> \o sorted

RECURSIVE SortByStart(_, _)
SortByStart(done, todo) ==
    IF todo = <<>> THEN done ELSE SortByStart(InsertAsc(done, Head(todo)), Tail(todo))

\* sorted(key=start, reverse=True): descending, equal keys keep their order
RECURSIVE InsertDesc(_, _)
InsertDesc(sorted, e) ==
    IF sorted = <<>> THEN <<e>>
    ELSE IF Head(sorted).start >= e.start THEN <<Head(sorted)>> \o InsertDesc(Tail(sorted), e)
    ELSE <<e>> \o sorted

RECURSIVE SortByStartReverse(_, _)
SortByStartReverse(done, todo) ==
    IF todo = <<>> THEN done
    ELSE SortByStartReverse(InsertDesc(done, Head(todo)), Tail(todo))

----------------------------------------------------------------------------
(* Detection and rewriting (main_simple.py).                               *)

\* score=0.95, in hundredths
SCORE == 95

\* faulty variant: the end offset is taken one past the match
EntityHitPastEnd(entity_type, m, text) ==
    [entity_type |-> entity_type, start |-> m.start, end |-> m.end + 1,
     score |-> SCORE, text |-> SubSeq(text, m.start + 1, m.end)]

EntityHit(entity_type, m, text) ==
    [entity_type |-> entity_type, start |-> m.start, end |-> m.end,
     score |-> SCORE, text |-> SubSeq(text, m.start + 1, m.end)]

\* the hits of one pattern, in match order
PatternHits(p, text) ==
    LET ms == finditer(p.pattern, text, 0)
    IN [i \in DOMAIN ms |-> EntityHit(p.key, ms[i], text)]

\* the loop over patterns.items()
RECURSIVE AllHits(_, _)
AllHits(patterns, text) ==
    IF patterns = <<>> THEN <<>>
    ELSE PatternHits(Head(patterns), text) \o AllHits(Tail(patterns), text)

\* faulty variant: no allow-list activates no pattern
ActivePatternsNoneIsEmpty(allowed_entities) ==
    IF allowed_entities.is_none THEN <<>>
    ELSE IF allowed_entities.value = <<>> THEN PATTERNS
    ELSE SelectSeq(PATTERNS, LAMBDA p : p.key \in Range(allowed_entities.value))

\* faulty variant: the allow-list is ignored
ActivePatternsAll(allowed_entities) == PATTERNS

\* faulty variant: an allow-list that selects no pattern falls back to all
ActivePatternsFallback(allowed_entities) ==
    LET selected == SelectSeq(PATTERNS, LAMBDA p : p.key \in Range(allowed_entities.value))
    IN IF ~Truthy(allowed_entities) \/ selected = <<>> THEN PATTERNS ELSE selected

ActivePatterns(allowed_entities) ==
    IF ~Truthy(allowed_entities) THEN PATTERNS
    ELSE SelectSeq(PATTERNS, LAMBDA p : p.key \in Range(allowed_entities.value))

\* faulty variant: the hits are returned in the order the patterns gave them
find_entitiesUnsorted(text, allowed_entities) ==
    AllHits(ActivePatterns(allowed_entities), text)

find_entities(text, allowed_entities) ==
    SortByStart(<<>>, AllHits(ActivePatterns(allowed_entities), text))

Replacement(entity, operator, mask_char, mask_len) ==
    IF operator = "mask" THEN Repeat(mask_char, mask_len)
    ELSE <<"<">> \o entity.entity_type \o <<">">>

\* the loop over entities_reversed
RECURSIVE Rewrite(_, _, _, _, _)
Rewrite(result, entities_reversed, operator, mask_char, mask_len) ==
    IF entities_reversed = <<>> THEN result
    ELSE LET entity == Head(entities_reversed)
         IN Rewrite(SliceTo(result, entity.start)
                      \o Replacement(entity, operator, mask_char, mask_len)
                      \o SliceFrom(result, entity.end),
                    Tail(entities_reversed), operator, mask_char, mask_len)

\* faulty variant: the spans are rewritten in ascending order of start
apply_sanitizationForward(text, entities, operator, mask_char, mask_len) ==
    Rewrite(text, entities, operator, mask_char, mask_len)

apply_sanitization(text, entities, operator, mask_char, mask_len) ==
    Rewrite(text, SortByStartReverse(<<>>, entities), operator, mask_char, mask_len)

----------------------------------------------------------------------------
(* Auth: the bearer token and the role check (the Depends of the routes).  *)

\* an Authorization header: absent, or "Bearer <token>"; jwt.decode either
\* raises JWTError (valid = FALSE) or yields the payload's sub and roles
NoAuthorization == [present |-> FALSE, valid |-> FALSE, sub |-> "", roles |-> {}]
Bearer(valid, sub, roles) == [present |-> TRUE, valid |-> valid, sub |-> sub, roles |-> roles]

HTTPException(status_code, detail) ==
    [status |-> status_code, detail |-> detail, email |-> "", roles |-> {}]

get_current_user(authorization) ==
    IF ~authorization.present THEN HTTPException(401, "Missing bearer token")
    ELSE IF ~authorization.valid THEN HTTPException(401, "Invalid token")
    ELSE IF authorization.sub = "" THEN HTTPException(401, "Invalid token (sub)")
    ELSE [status |-> 200, detail |-> "", email |-> authorization.sub,
          roles |-> authorization.roles]

\* faulty variant: any authenticated user passes, whatever the roles
require_rolesAnyUser(required, authorization) == get_current_user(authorization)

require_roles(required, authorization) ==
    LET user == get_current_user(authorization)
    IN IF user.status # 200 THEN user
       ELSE IF user.roles \cap required = {} THEN HTTPException(403, "Insufficient role")
       ELSE user

SanitizeRoles == {"expert", "moderator", "admin"}

----------------------------------------------------------------------------
(* Endpoints.                                                              *)

NoResponse == [status |-> 0]

\* faulty variant: preview detects without the request's allow-list
PreviewOfUnfiltered(r) ==
    LET user == require_roles(SanitizeRoles, r.authorization)
        entities == find_entities(r.text, None)
        redacted_text == apply_sanitization(r.text, entities, r.operator,
                                            r.mask_char, r.mask_len)
    IN IF user.status # 200 THEN [status |-> user.status, detail |-> user.detail]
       ELSE [status |-> 200, redacted_text |-> redacted_text, entities |-> entities]

\* POST /sanitize/preview (the diff of difflib.ndiff is not modelled)
PreviewOf(r) ==
    LET user == require_roles(SanitizeRoles, r.authorization)
        entities == find_entities(r.text, r.entities)
        redacted_text == apply_sanitization(r.text, entities, r.operator,
                                            r.mask_char, r.mask_len)
    IN IF user.status # 200 THEN [status |-> user.status, detail |-> user.detail]
       ELSE [status |-> 200, redacted_text |-> redacted_text, entities |-> entities]

\* faulty variant: apply rewrites with the default operator, not the request's
ApplyOfDefaultOperator(r) ==
    LET user == require_roles(SanitizeRoles, r.authorization)
        entities == find_entities(r.text, r.entities)
        sanitized_text == apply_sanitization(r.text, entities, "replace",
                                             r.mask_char, r.mask_len)
    IN IF user.status # 200 THEN [status |-> user.status, detail |-> user.detail]
       ELSE [status |-> 200, sanitized_text |-> sanitized_text,
             entities_applied |-> entities]

\* faulty variant: the text of each entity is cut from the rewritten text
ApplyOfStaleText(r) ==
    LET user == require_roles(SanitizeRoles, r.authorization)
        entities == find_entities(r.text, r.entities)
        sanitized_text == apply_sanitization(r.text, entities, r.operator,
                                             r.mask_char, r.mask_len)
    IN IF user.status # 200 THEN [status |-> user.status, detail |-> user.detail]
       ELSE [status |-> 200, sanitized_text |-> sanitized_text,
             entities_applied |->
                 [i \in DOMAIN entities |->
                     [entities[i] EXCEPT !.text =
                         SubSeq(sanitized_text, entities[i].start + 1,
                                Min(entities[i].end, Len(sanitized_text)))]]]

\* POST /sanitize/apply
ApplyOf(r) ==
    LET user == require_roles(SanitizeRoles, r.authorization)
        entities == find_entities(r.text, r.entities)
        sanitized_text == apply_sanitization(r.text, entities, r.operator,
                                             r.mask_char, r.mask_len)
    IN IF user.status # 200 THEN [status |-> user.status, detail |-> user.detail]
       ELSE [status |-> 200, sanitized_text |-> sanitized_text,
             entities_applied |-> entities]

\* GET /recognizers: list(PATTERNS.keys())
RecognizersOf(authorization) ==
    LET user == require_roles(SanitizeRoles, authorization)
    IN IF user.status # 200 THEN [status |-> user.status, detail |-> user.detail]
       ELSE [status |-> 200, entities |-> [i \in DOMAIN PATTERNS |-> PATTERNS[i].key]]

----------------------------------------------------------------------------
(* Requests: texts are built from a few fragments, so that the recognizers *)
(* match, overlap and abut within short inputs.                            *)

MaxChunks == 3

Chunks == {
    <<"5","5","5","-","1","2","3","-","4","5","6","7">>,
    <<"-","1","1","1","1","-","1","1","1","1","-","1","1","1","1">>,
    <<"@","b",".","c","o">>,
    <<"x",".">>,
    <<" ">>
}

RECURSIVE TextsOf(_)
TextsOf(n) ==
    IF n = 0 THEN {<<>>}
    ELSE LET shorter == TextsOf(n - 1)
         IN shorter \cup {t \o c : t \in shorter, c \in Chunks}

Texts == TextsOf(MaxChunks)

ES_DNI == <<"E","S","_","D","N","I">>

AllowLists == {None, Some(<<>>), Some(<<EMAIL>>), Some(<<ES_DNI>>),
               Some(<<ES_DNI, PHONE>>)}

\* operator, mask_char, mask_len: the defaults of PreviewRequest, and masks
\* shorter and longer than the spans they replace
DefaultMaskLen == 6
ShortMask == 4
LongMask == 13

Configs == {[operator |-> "replace", mask_char |-> <<"*">>, mask_len |-> DefaultMaskLen],
            [operator |-> "mask", mask_char |-> <<"*">>, mask_len |-> ShortMask],
            [operator |-> "mask", mask_char |-> <<"*">>, mask_len |-> LongMask]}

Authorizations == {NoAuthorization,
                   Bearer(FALSE, "", {}),
                   Bearer(TRUE, "u@x", {"user"}),
                   Bearer(TRUE, "e@x", {"user", "expert"})}

PreviewRequest(authorization, text, entities, config) ==
    [authorization |-> authorization, text |-> text, language |-> "en",
     entities |-> entities, operator |-> config.operator,
     mask_char |-> config.mask_char, mask_len |-> config.mask_len]

Requests ==
    {PreviewRequest(a, t, e, c) :
        a \in Authorizations, t \in Texts, e \in AllowLists, c \in Configs}

----------------------------------------------------------------------------
(* The state machine: one request, answered by each of the two endpoints.  *)

\* no request has reached the sanitize service
SvcIdle ==
    /\ req = <<>>
    /\ preview_response = NoResponse
    /\ apply_response = NoResponse
    /\ recognizers_response = NoResponse

\* no name has reached the files service
FilesIdle ==
    /\ name = <<>>
    /\ files_response = NoResponse

\* the request threads of the server
NumWorkers == 2

\* thread 0 runs the startup event, the others one request each
Threads == 0..NumWorkers

\* the Presidio variant has not been started
PresidioIdle ==
    /\ _analyzer = 0
    /\ _anonymizer = 0
    /\ serving = FALSE
    /\ pc = [t \in Threads |-> "idle"]
    /\ built = [t \in Threads |-> 0]
    /\ outcome = [t \in Threads |-> 0]
    /\ steps = <<>>

\* the process as it starts, before any call
CallsIdle ==
    /\ pattern_table = PATTERNS
    /\ calls = <<>>

ExtIdle == FilesIdle /\ PresidioIdle /\ CallsIdle

\* no query is in progress in the RAG service
RagIdle ==
    /\ rag_app = "main"
    /\ rag_req = <<>>
    /\ rag_pc = "idle"
    /\ rag_q = <<>>
    /\ rag_answer = <<>>
    /\ rag_log = <<>>
    /\ rag_response = NoResponse

Init ==
    /\ req = <<>>
    /\ preview_response = NoResponse
    /\ apply_response = NoResponse
    /\ recognizers_response = NoResponse
    /\ RagIdle
    /\ ExtIdle

Receive ==
    /\ req = <<>>
    /\ \E r \in Requests : req' = <<r>>
    /\ UNCHANGED <<preview_response, apply_response, recognizers_response, rag_vars, ext_vars>>

sanitize_preview ==
    /\ req # <<>>
    /\ preview_response = NoResponse
    /\ preview_response' = PreviewOf(req[1])
    /\ UNCHANGED <<req, apply_response, recognizers_response, rag_vars, ext_vars>>

sanitize_apply ==
    /\ req # <<>>
    /\ apply_response = NoResponse
    /\ apply_response' = ApplyOf(req[1])
    /\ UNCHANGED <<req, preview_response, recognizers_response, rag_vars, ext_vars>>

Next == Receive \/ sanitize_preview \/ sanitize_apply

Spec == Init /\ [][Next]_vars

----------------------------------------------------------------------------
(* Requests of the documented contract: the scenario text of the spec and  *)
(* its parts, the Spanish identifiers, and configurations outside the      *)
(* documented ranges.                                                      *)

ScenarioFragments == <<
    <<"C","o","n","t","a","c","t"," ","m","e"," ","a","t"," ">>,
    <<"a","@","b",".","c","o","m">>,
    <<" ","o","r"," ","c","a","l","l"," ">>,
    <<"5","5","5","-","1","2","3","-","4","5","6","7">>,
    <<","," ","c","a","r","d"," ">>,
    <<"4","1","1","1"," ","1","1","1","1"," ","1","1","1","1"," ","1","1","1","1">>
>>

\* the concatenations of the fragments from i on, each kept or left out
RECURSIVE FragmentTexts(_)
FragmentTexts(i) ==
    IF i > Len(ScenarioFragments) THEN {<<>>}
    ELSE LET rest == FragmentTexts(i + 1)
         IN rest \cup {ScenarioFragments[i] \o t : t \in rest}

DniText == <<"1","2","3","4","5","6","7","8","Z">>
IbanText == <<"E","S","9","1","2","1","0","0","0","4","1","8","4","5","0","2","0","0","0","5","1","3","3","2">>
PhoneText == ScenarioFragments[4]
EmailText == ScenarioFragments[2]

ES_IBAN == <<"E","S","_","I","B","A","N">>

AllAuthorizations ==
    Authorizations \cup {Bearer(TRUE, "", {"admin"}),
                         Bearer(TRUE, "g@x", {}),
                         Bearer(TRUE, "m@x", {"moderator", "admin"})}

\* operator and mask_len are any str and int: PreviewRequest constrains neither
AnyConfigs ==
    Configs \cup {[operator |-> "hash", mask_char |-> <<"*">>, mask_len |-> DefaultMaskLen],
                  [operator |-> "mask", mask_char |-> <<"*">>, mask_len |-> 0],
                  [operator |-> "mask", mask_char |-> <<"*">>, mask_len |-> -1]}

Languages == {"en", "xx"}

ScenarioRequests ==
    {PreviewRequest(a, t, None, c) :
        a \in AllAuthorizations, t \in FragmentTexts(1), c \in Configs}

ConfigRequests ==
    {[PreviewRequest(a, t, e, c) EXCEPT !.language = l] :
        a \in AllAuthorizations, t \in {DniText, IbanText, PhoneText, EmailText},
        e \in {None, Some(<<ES_DNI>>), Some(<<ES_IBAN>>), Some(<<DNI_ES>>),
                Some(<<EMAIL, PHONE>>)},
        c \in AnyConfigs, l \in Languages}

\* a text whose matches come in the reverse of the order of PATTERNS
ReversedText ==
    ScenarioFragments[6] \o ScenarioFragments[3] \o ScenarioFragments[4]
    \o ScenarioFragments[3] \o ScenarioFragments[2]

OrderRequests ==
    {PreviewRequest(a, ReversedText, e, c) :
        a \in AllAuthorizations, e \in {None, Some(<<EMAIL, PHONE>>)}, c \in Configs}

ContractRequests == ScenarioRequests \cup ConfigRequests \cup OrderRequests

ReceiveContract ==
    /\ req = <<>>
    /\ \E r \in ContractRequests : req' = <<r>>
    /\ UNCHANGED <<preview_response, apply_response, recognizers_response, rag_vars, ext_vars>>

recognizers ==
    /\ recognizers_response = NoResponse
    /\ \E a \in AllAuthorizations : recognizers_response' = RecognizersOf(a)
    /\ UNCHANGED <<req, preview_response, apply_response, rag_vars, ext_vars>>

NextContract == ReceiveContract \/ sanitize_preview \/ sanitize_apply \/ recognizers

SpecContract == Init /\ [][NextContract]_vars

----------------------------------------------------------------------------
(* rag-svc: POST /rag/query. The handler is followed call by call: the     *)
(* sanitize call on the question, retrieval, generation, the sanitize call *)
(* on the answer, the response. main.py and main_simple.py differ in the   *)
(* sanitize helper and in what stands for retrieval and generation.        *)

RagApps == {"main", "main_simple"}

RagRoles == {"user", "expert", "moderator", "admin"}

\* what requests.post meets: an answer of the sanitize service, an answer of
\* something failing in front of it, or no answer (connection error, timeout)
Nets == {"ok", "http_error", "unreachable"}

\* the body {"text", "language": "en", "operator": "replace"} as the sanitize
\* service reads it, sent with the header Authorization: Bearer <token>
SanitizeBody(text, token) ==
    PreviewRequest(token, text, None,
                   [operator |-> "replace", mask_char |-> <<"*">>, mask_len |-> DefaultMaskLen])

\* r of r = requests.post(...)
SanitizePost(text, token, net) ==
    IF net = "http_error" THEN [status |-> 503, detail |-> "Service Unavailable"]
    ELSE ApplyOf(SanitizeBody(text, token))

Returned(v) == [raised |-> FALSE, value |-> v]
Raised == [raised |-> TRUE, value |-> <<>>]

\* main.py: requests.post is not guarded, its exception leaves the helper
sanitize(text, token, net) ==
    IF net = "unreachable" THEN Raised
    ELSE LET r == SanitizePost(text, token, net)
         IN IF r.status >= 300 THEN Returned(text) ELSE Returned(r.sanitized_text)

\* main_simple.py: the same body inside try / except: return text
sanitize_simple(text, token, net) ==
    LET out == sanitize(text, token, net)
    IN IF out.raised THEN Returned(text) ELSE out

SanitizeOf(app, text, token, net) ==
    IF app = "main" THEN sanitize(text, token, net) ELSE sanitize_simple(text, token, net)

\* faulty variant: the sanitize calls are never made
ShouldSanitizeNever(flag, authorization) == FALSE

\* req.sanitize_in and token, req.sanitize_out and token
ShouldSanitize(flag, authorization) == flag /\ authorization.present

MockPrefix == <<
    "E","s","t","a"," ","e","s"," ","u","n","a"," ","r","e","s","p",
    "u","e","s","t","a"," ","m","o","c","k"," ","p","a","r","a"," ",
    "l","a"," ","p","r","e","g","u","n","t","a",":"," ","'"
>>

MockSuffix == <<
    "'","."," ","E","l"," ","s","i","s","t","e","m","a"," ","R","A",
    "G"," ","n","o"," ","e","s","t","á"," ","c","o","m","p","l","e",
    "t","a","m","e","n","t","e"," ","c","o","n","f","i","g","u","r",
    "a","d","o"," ","a","ú","n"," ","(","f","a","l","t","a"," ","O",
    "p","e","n","A","I"," ","A","P","I"," ","k","e","y"," ","o"," ",
    "C","h","r","o","m","a",")","."," ","P","e","r","o"," ","l","a",
    " ","a","u","t","e","n","t","i","c","a","c","i","ó","n"," ","y",
    " ","s","a","n","i","t","i","z","a","c","i","ó","n"," ","e","s",
    "t","á","n"," ","f","u","n","c","i","o","n","a","n","d","o","."
>>

\* the f-string of main_simple.py
MockAnswer(q) == MockPrefix \o q \o MockSuffix

\* one call made by the handler
Event(call, text, authorization, net, out) ==
    [call |-> call, text |-> text, authorization |-> authorization, net |-> net,
     raised |-> out.raised, returned |-> out.value]

\* a call other than sanitize: what it was given and what it gave
Called(call, text, value) == Event(call, text, NoAuthorization, "ok", Returned(value))

Questions == {PhoneText, <<"h","i">>}

\* what the language model may answer
Answers == {DniText, <<"o","k">>}

\* top_k is left out: it only bounds the number of citations
QueryRequest(authorization, question, sanitize_in, sanitize_out) ==
    [authorization |-> authorization, question |-> question,
     sanitize_in |-> sanitize_in, sanitize_out |-> sanitize_out]

QueryRequests ==
    {QueryRequest(a, q, i, o) :
        a \in AllAuthorizations, q \in Questions, i \in BOOLEAN, o \in BOOLEAN}

\* faulty variant: question_sanitized echoes the question of the request
QueryResponseRawQuestion(r, q, answer) ==
    [status |-> 200, answer |-> answer,
     question_sanitized |-> IF r.sanitize_in THEN Some(r.question) ELSE None]

\* QueryResponse(answer, citations, question_sanitized=q if req.sanitize_in
\* else None, latency_ms); citations and latency are left out
QueryResponse(r, q, answer) ==
    [status |-> 200, answer |-> answer,
     question_sanitized |-> IF r.sanitize_in THEN Some(q) ELSE None]

InternalServerError == [status |-> 500, detail |-> "Internal Server Error"]

\* where rag_query goes after the sanitize call on the question
Generation(app) == IF app = "main" THEN "retrieve" ELSE "mock"

InitRag ==
    /\ req = <<>>
    /\ preview_response = NoResponse
    /\ apply_response = NoResponse
    /\ recognizers_response = NoResponse
    /\ rag_app \in RagApps
    /\ rag_req = <<>>
    /\ rag_pc = "idle"
    /\ rag_q = <<>>
    /\ rag_answer = <<>>
    /\ rag_log = <<>>
    /\ rag_response = NoResponse
    /\ ExtIdle

\* the dependency require_roles('user','expert','moderator','admin'), q = req.question
rag_query_receive ==
    /\ rag_pc = "idle"
    /\ \E r \in QueryRequests :
        LET user == require_roles(RagRoles, r.authorization)
        IN /\ rag_req' = <<r>>
           /\ IF user.status # 200
              THEN /\ rag_pc' = "done"
                   /\ rag_response' = [status |-> user.status, detail |-> user.detail]
                   /\ rag_q' = rag_q
              ELSE /\ rag_pc' = "pre"
                   /\ rag_response' = rag_response
                   /\ rag_q' = r.question
    /\ UNCHANGED <<rag_app, rag_answer, rag_log, svc_vars, ext_vars>>

\* 1) if req.sanitize_in and token: q = sanitize(q, token)
rag_query_pre_sanitize ==
    /\ rag_pc = "pre"
    /\ IF ShouldSanitize(rag_req[1].sanitize_in, rag_req[1].authorization)
       THEN \E net \in Nets :
              LET out == SanitizeOf(rag_app, rag_q, rag_req[1].authorization, net)
              IN /\ rag_log' = Append(rag_log, Event("sanitize", rag_q,
                                                     rag_req[1].authorization, net, out))
                 /\ IF out.raised
                    THEN /\ rag_pc' = "done"
                         /\ rag_response' = InternalServerError
                         /\ rag_q' = rag_q
                    ELSE /\ rag_pc' = Generation(rag_app)
                         /\ rag_response' = rag_response
                         /\ rag_q' = out.value
       ELSE /\ rag_pc' = Generation(rag_app)
            /\ UNCHANGED <<rag_log, rag_response, rag_q>>
    /\ UNCHANGED <<rag_app, rag_req, rag_answer, svc_vars, ext_vars>>

\* 2) main.py: embed([q]) and collection.query
rag_query_retrieve ==
    /\ rag_pc = "retrieve"
    /\ rag_log' = Append(rag_log, Called("embed", rag_q, <<>>))
    /\ rag_pc' = "llm"
    /\ UNCHANGED <<rag_app, rag_req, rag_q, rag_answer, rag_response, svc_vars, ext_vars>>

\* 4) main.py: answer = call_llm(q, context)
rag_query_llm ==
    /\ rag_pc = "llm"
    /\ \E a \in Answers :
        /\ rag_answer' = a
        /\ rag_log' = Append(rag_log, Called("llm", rag_q, a))
    /\ rag_pc' = "post"
    /\ UNCHANGED <<rag_app, rag_req, rag_q, rag_response, svc_vars, ext_vars>>

\* 2) main_simple.py: the mock answer, which quotes q
rag_query_mock ==
    /\ rag_pc = "mock"
    /\ rag_answer' = MockAnswer(rag_q)
    /\ rag_log' = Append(rag_log, Called("mock", rag_q, MockAnswer(rag_q)))
    /\ rag_pc' = "post"
    /\ UNCHANGED <<rag_app, rag_req, rag_q, rag_response, svc_vars, ext_vars>>

\* 5) if req.sanitize_out and token: answer = sanitize(answer, token)
rag_query_post_sanitize ==
    /\ rag_pc = "post"
    /\ IF ShouldSanitize(rag_req[1].sanitize_out, rag_req[1].authorization)
       THEN \E net \in Nets :
              LET out == SanitizeOf(rag_app, rag_answer, rag_req[1].authorization, net)
              IN /\ rag_log' = Append(rag_log, Event("sanitize", rag_answer,
                                                     rag_req[1].authorization, net, out))
                 /\ IF out.raised
                    THEN /\ rag_pc' = "done"
                         /\ rag_response' = InternalServerError
                         /\ rag_answer' = rag_answer
                    ELSE /\ rag_pc' = "return"
                         /\ rag_response' = rag_response
                         /\ rag_answer' = out.value
       ELSE /\ rag_pc' = "return"
            /\ UNCHANGED <<rag_log, rag_response, rag_answer>>
    /\ UNCHANGED <<rag_app, rag_req, rag_q, svc_vars, ext_vars>>

\* return QueryResponse(answer, citations, question_sanitized, latency_ms)
rag_query_return ==
    /\ rag_pc = "return"
    /\ rag_response' = QueryResponse(rag_req[1], rag_q, rag_answer)
    /\ rag_log' = Append(rag_log, Called("return", rag_answer, <<>>))
    /\ rag_pc' = "done"
    /\ UNCHANGED <<rag_app, rag_req, rag_q, rag_answer, svc_vars, ext_vars>>

NextRag ==
    \/ rag_query_receive
    \/ rag_query_pre_sanitize
    \/ rag_query_retrieve
    \/ rag_query_llm
    \/ rag_query_mock
    \/ rag_query_post_sanitize
    \/ rag_query_return

SpecRag == InitRag /\ [][NextRag]_vars

----------------------------------------------------------------------------
(* files-svc: the object name handed to the storage by upload, presign and *)
(* delete. The storage calls themselves are left out.                      *)

\* the complement of [^a-zA-Z0-9._/-]
SafeNameChars == Upper \cup Lower \cup Digit \cup {".", "_", "/", "-"}

\* name.replace('..', '.'): the non-overlapping occurrences, left to right
RECURSIVE str_replace_dotdot(_)
str_replace_dotdot(s) ==
    IF Len(s) < 2 THEN s
    ELSE IF s[1] = "." /\ s[2] = "." THEN <<".">> \o str_replace_dotdot(SubSeq(s, 3, Len(s)))
    ELSE <<s[1]>> \o str_replace_dotdot(Tail(s))

\* s without its leading characters outside SafeNameChars
RECURSIVE SkipUnsafe(_)
SkipUnsafe(s) ==
    IF s # <<>> /\ Head(s) \notin SafeNameChars THEN SkipUnsafe(Tail(s)) ELSE s

\* SAFE_NAME_RE.sub('_', name): every run of unsafe characters becomes one '_'
RECURSIVE SAFE_NAME_RE_sub(_)
SAFE_NAME_RE_sub(s) ==
    IF s = <<>> THEN <<>>
    ELSE IF Head(s) \notin SafeNameChars THEN <<"_">> \o SAFE_NAME_RE_sub(SkipUnsafe(s))
    ELSE <<Head(s)>> \o SAFE_NAME_RE_sub(Tail(s))

\* s.lstrip('_') and s.rstrip('_')
RECURSIVE lstrip(_)
lstrip(s) == IF s # <<>> /\ Head(s) = "_" THEN lstrip(Tail(s)) ELSE s

RECURSIVE rstrip(_)
rstrip(s) == IF s # <<>> /\ s[Len(s)] = "_" THEN rstrip(SubSeq(s, 1, Len(s) - 1)) ELSE s

sanitize_object_name(n) ==
    LET stripped == rstrip(lstrip(SAFE_NAME_RE_sub(str_replace_dotdot(n))))
    IN IF stripped = <<>> THEN [status |-> 400, detail |-> "Invalid filename"]
       ELSE [status |-> 200, object_name |-> stripped]

\* the answer of a route that needs one of the roles and then the object name
NamedRoute(route, roles, authorization, n) ==
    LET user == require_roles(roles, authorization)
        object == sanitize_object_name(n)
    IN IF user.status # 200 THEN [status |-> user.status, detail |-> user.detail]
       ELSE IF object.status # 200 THEN object
       ELSE [status |-> 200, route |-> route, object_name |-> object.object_name]

MaxNameLen == 4

NameChars == {".", "/", "a", "*", "_"}

RECURSIVE NamesUpTo(_)
NamesUpTo(n) ==
    IF n = 0 THEN {<<>>}
    ELSE LET shorter == NamesUpTo(n - 1)
         IN shorter \cup {Append(s, c) : s \in shorter, c \in NameChars}

Names == NamesUpTo(MaxNameLen)

InitFiles ==
    /\ SvcIdle
    /\ RagIdle
    /\ PresidioIdle
    /\ CallsIdle
    /\ name \in Names
    /\ files_response = NoResponse

\* POST /files/upload: the name is f.filename or 'file'
upload_file ==
    /\ files_response = NoResponse
    /\ \E a \in AllAuthorizations : \E content_type_allowed \in BOOLEAN :
        LET user == require_roles({"admin", "moderator", "expert"}, a)
        IN files_response' =
             IF user.status = 200 /\ ~content_type_allowed
             THEN [status |-> 415, detail |-> "Content-Type no permitido"]
             ELSE NamedRoute("upload", {"admin", "moderator", "expert"}, a,
                             IF name = <<>> THEN <<"f","i","l","e">> ELSE name)
    /\ UNCHANGED <<name, svc_vars, rag_vars, presidio_vars, calls_vars>>

\* GET /files/{object_name}/url: a path parameter is one non-empty segment
presign_url ==
    /\ files_response = NoResponse
    /\ name # <<>> /\ "/" \notin Range(name)
    /\ \E a \in AllAuthorizations :
        files_response' = NamedRoute("presign", {"user", "expert", "moderator", "admin"}, a, name)
    /\ UNCHANGED <<name, svc_vars, rag_vars, presidio_vars, calls_vars>>

\* DELETE /files/{object_name}
delete_file ==
    /\ files_response = NoResponse
    /\ name # <<>> /\ "/" \notin Range(name)
    /\ \E a \in AllAuthorizations :
        files_response' = NamedRoute("delete", {"admin", "moderator"}, a, name)
    /\ UNCHANGED <<name, svc_vars, rag_vars, presidio_vars, calls_vars>>

NextFiles == upload_file \/ presign_url \/ delete_file

SpecFiles == InitFiles /\ [][NextFiles]_vars

----------------------------------------------------------------------------
(* The Presidio variant of the sanitize service (sanitize-svc main.py):      *)
(* the engines are module globals that ensure_ready() builds on first use.   *)
(* The startup event and the handlers run in threads of the server; every    *)
(* statement that reads or writes a global is one step.  An engine is        *)
(* written as the number of the build that made it, 0 is None.               *)

Workers == 1..NumWorkers

\* the build of thread t: a local analyzer with its four recognizers added,
\* and a local anonymizer
BuildOf(t) == t + 1

\* an event of the log
Step(op, t, engine) == [op |-> op, thread |-> t, engine |-> engine]

\* the thread moves on
Goto(t, label) == pc' = [pc EXCEPT ![t] = label]

InitPresidio ==
    /\ SvcIdle
    /\ RagIdle
    /\ FilesIdle
    /\ CallsIdle
    /\ PresidioIdle

\* @app.on_event('startup'): the warm-up enters ensure_ready()
_startup ==
    /\ pc[0] = "idle"
    /\ Goto(0, "check")
    /\ UNCHANGED <<_analyzer, _anonymizer, serving, built, outcome, steps>>
    /\ UNCHANGED <<svc_vars, rag_vars, files_vars, calls_vars>>

\* a handler is entered, which the server does only after the startup event
\* has returned; its first statement is ensure_ready()
Handler(route, t) ==
    /\ serving
    /\ pc[t] = "idle"
    /\ Goto(t, "check")
    /\ steps' = Append(steps, Step(route, t, 0))
    /\ UNCHANGED <<_analyzer, _anonymizer, serving, built, outcome>>
    /\ UNCHANGED <<svc_vars, rag_vars, files_vars, calls_vars>>

sanitize_preview_enter(t) == Handler("preview", t)

sanitize_apply_enter(t) == Handler("apply", t)

\* where ensure_ready() returns to
Ready(t) == IF t = 0 THEN "return" ELSE "analyze"

\* `if _analyzer and _anonymizer: return`, the left operand
ensure_ready_analyzer(t) ==
    /\ pc[t] = "check"
    /\ Goto(t, IF _analyzer = 0 THEN "build" ELSE "check_anonymizer")
    /\ UNCHANGED <<_analyzer, _anonymizer, serving, built, outcome, steps>>
    /\ UNCHANGED <<svc_vars, rag_vars, files_vars, calls_vars>>

\* `if _analyzer and _anonymizer: return`, the right operand
ensure_ready_anonymizer(t) ==
    /\ pc[t] = "check_anonymizer"
    /\ Goto(t, IF _anonymizer = 0 THEN "build" ELSE Ready(t))
    /\ UNCHANGED <<_analyzer, _anonymizer, serving, built, outcome, steps>>
    /\ UNCHANGED <<svc_vars, rag_vars, files_vars, calls_vars>>

\* the engines and the four recognizers are constructed into locals; loading
\* the language model or compiling a pattern may raise.  The exception leaves
\* ensure_ready(): _startup catches it, a handler answers 500.
ensure_ready_build(t) ==
    /\ pc[t] = "build"
    /\ \E raised \in BOOLEAN :
        IF raised
          THEN /\ outcome' = [outcome EXCEPT ![t] = 500]
               /\ Goto(t, IF t = 0 THEN "except" ELSE "done")
               /\ steps' = Append(steps, Step("raise", t, 0))
               /\ UNCHANGED built
          ELSE /\ built' = [built EXCEPT ![t] = BuildOf(t)]
               /\ Goto(t, "set_analyzer")
               /\ steps' = Append(steps, Step("build", t, BuildOf(t)))
               /\ UNCHANGED outcome
    /\ UNCHANGED <<_analyzer, _anonymizer, serving>>
    /\ UNCHANGED <<svc_vars, rag_vars, files_vars, calls_vars>>

\* `_analyzer = analyzer`
ensure_ready_set_analyzer(t) ==
    /\ pc[t] = "set_analyzer"
    /\ _analyzer' = built[t]
    /\ Goto(t, "set_anonymizer")
    /\ steps' = Append(steps, Step("set_analyzer", t, built[t]))
    /\ UNCHANGED <<_anonymizer, serving, built, outcome>>
    /\ UNCHANGED <<svc_vars, rag_vars, files_vars, calls_vars>>

\* `_anonymizer = anonymizer`
ensure_ready_set_anonymizer(t) ==
    /\ pc[t] = "set_anonymizer"
    /\ _anonymizer' = built[t]
    /\ Goto(t, Ready(t))
    /\ steps' = Append(steps, Step("set_anonymizer", t, built[t]))
    /\ UNCHANGED <<_analyzer, serving, built, outcome>>
    /\ UNCHANGED <<svc_vars, rag_vars, files_vars, calls_vars>>

\* the startup event returns, after ensure_ready() or after `except: pass`,
\* and the server begins to accept requests
_startup_return ==
    /\ pc[0] \in {"return", "except"}
    /\ Goto(0, "done")
    /\ serving' = TRUE
    /\ UNCHANGED <<_analyzer, _anonymizer, built, outcome, steps>>
    /\ UNCHANGED <<svc_vars, rag_vars, files_vars, calls_vars>>

\* `_analyzer.analyze(...)` reads the global
analyze(t) ==
    /\ pc[t] = "analyze"
    /\ steps' = Append(steps, Step("analyze", t, _analyzer))
    /\ Goto(t, "anonymize")
    /\ UNCHANGED <<_analyzer, _anonymizer, serving, built, outcome>>
    /\ UNCHANGED <<svc_vars, rag_vars, files_vars, calls_vars>>

\* `_anonymizer.anonymize(...)` reads the global, and so does _ops(), whose
\* ensure_ready() finds both globals set; the handler answers
anonymize(t) ==
    /\ pc[t] = "anonymize"
    /\ steps' = Append(steps, Step("anonymize", t, _anonymizer))
    /\ outcome' = [outcome EXCEPT ![t] =
                      IF _analyzer = 0 \/ _anonymizer = 0 THEN 500 ELSE 200]
    /\ Goto(t, "done")
    /\ UNCHANGED <<_analyzer, _anonymizer, serving, built>>
    /\ UNCHANGED <<svc_vars, rag_vars, files_vars, calls_vars>>

NextPresidio ==
    \/ _startup
    \/ _startup_return
    \/ \E t \in Workers : sanitize_preview_enter(t)
    \/ \E t \in Workers : sanitize_apply_enter(t)
    \/ \E t \in Threads : ensure_ready_analyzer(t)
    \/ \E t \in Threads : ensure_ready_anonymizer(t)
    \/ \E t \in Threads : ensure_ready_build(t)
    \/ \E t \in Threads : ensure_ready_set_analyzer(t)
    \/ \E t \in Threads : ensure_ready_set_anonymizer(t)
    \/ \E t \in Workers : analyze(t)
    \/ \E t \in Workers : anonymize(t)

SpecPresidio == InitPresidio /\ [][NextPresidio]_vars

----------------------------------------------------------------------------
(* The process over several calls (sanitize-svc main_simple.py).  PATTERNS  *)
(* is a module global, a dict that every call of the process reads; the     *)
(* state keeps it, and the calls answered so far.                           *)

\* find_entities, `patterns = ...`: PATTERNS itself, or a new dict of the
\* allowed keys
patterns_of(table, allowed_entities) ==
    IF ~Truthy(allowed_entities) THEN table
    ELSE SelectSeq(table, LAMBDA p : p.key \in Range(allowed_entities.value))

\* faulty variant: the allow-list is applied to PATTERNS in place
PATTERNS_afterNarrowed(table, allowed_entities) ==
    patterns_of(table, allowed_entities)

\* the dict PATTERNS after find_entities: `patterns` is only iterated, the
\* hits go to the local list `entities`
PATTERNS_after(table, allowed_entities) == table

\* the handler of a route, run in a process whose PATTERNS is `table`
HandlerOf(table, route, r) ==
    LET user == require_roles(SanitizeRoles, r.authorization)
        entities == SortByStart(<<>>, AllHits(patterns_of(table, r.entities), r.text))
        text == apply_sanitization(r.text, entities, r.operator, r.mask_char, r.mask_len)
    IN IF user.status # 200 THEN [status |-> user.status, detail |-> user.detail]
       ELSE IF route = "preview"
         THEN [status |-> 200, redacted_text |-> text, entities |-> entities]
         ELSE [status |-> 200, sanitized_text |-> text, entities_applied |-> entities]

\* PATTERNS after the handler: the role check comes first
TableAfter(table, r) ==
    IF require_roles(SanitizeRoles, r.authorization).status # 200 THEN table
    ELSE PATTERNS_after(table, r.entities)

MaxCalls == 2

CallTexts == {PhoneText, EmailText, PhoneText \o <<" ">> \o EmailText}

CallConfigs ==
    {[operator |-> "replace", mask_char |-> <<"*">>, mask_len |-> DefaultMaskLen],
     [operator |-> "mask", mask_char |-> <<"*">>, mask_len |-> ShortMask]}

\* the calls of an expert, and one call that the role check refuses
CallRequests ==
    {PreviewRequest(Bearer(TRUE, "e@x", {"user", "expert"}), t, e, c) :
        t \in CallTexts, e \in {None, Some(<<EMAIL>>)}, c \in CallConfigs}
    \cup {PreviewRequest(Bearer(TRUE, "u@x", {"user"}), PhoneText, Some(<<EMAIL>>),
                         [operator |-> "replace", mask_char |-> <<"*">>,
                          mask_len |-> DefaultMaskLen])}

InitCalls ==
    /\ SvcIdle
    /\ RagIdle
    /\ FilesIdle
    /\ PresidioIdle
    /\ CallsIdle

Call(route) ==
    /\ Len(calls) < MaxCalls
    /\ \E r \in CallRequests :
        /\ calls' = Append(calls, [route |-> route, request |-> r,
                                   response |-> HandlerOf(pattern_table, route, r)])
        /\ pattern_table' = TableAfter(pattern_table, r)
    /\ UNCHANGED <<svc_vars, rag_vars, files_vars, presidio_vars>>

sanitize_preview_call == Call("preview")

sanitize_apply_call == Call("apply")

NextCalls == sanitize_preview_call \/ sanitize_apply_call

SpecCalls == InitCalls /\ [][NextCalls]_vars

----------------------------------------------------------------------------
(* Vocabulary of the properties.                                           *)

\* the responses that carry a result, as <<redacted text, entities>>
Results ==
    (IF preview_response.status = 200
        THEN {<<preview_response.redacted_text, preview_response.entities>>} ELSE {})
    \cup
    (IF apply_response.status = 200
        THEN {<<apply_response.sanitized_text, apply_response.entities_applied>>} ELSE {})

\* the caller passes the role check of the sanitize routes
Authorized(r) == require_roles(SanitizeRoles, r.authorization).status = 200

BothAnswered == preview_response.status = 200 /\ apply_response.status = 200

Intersect(a, b) == a.start < b.end /\ b.start < a.end

NonOverlapping(es) ==
    \A i, j \in DOMAIN es : i # j => es[i].end <= es[j].start \/ es[j].end <= es[i].start

\* position i (1-based) of the text lies in a span of es
Covered(es, i) == \E k \in DOMAIN es : es[k].start < i /\ i <= es[k].end

\* the characters of the text outside every span, in order
RECURSIVE UncoveredFrom(_, _, _)
UncoveredFrom(text, es, i) ==
    IF i > Len(text) THEN <<>>
    ELSE (IF Covered(es, i) THEN <<>> ELSE <<text[i]>>) \o UncoveredFrom(text, es, i + 1)

Uncovered(text, es) == UncoveredFrom(text, es, 1)

\* a is b with some elements left out
RECURSIVE IsSubseq(_, _)
IsSubseq(a, b) ==
    IF a = <<>> THEN TRUE
    ELSE IF b = <<>> THEN FALSE
    ELSE IF Head(a) = Head(b) THEN IsSubseq(Tail(a), Tail(b))
    ELSE IsSubseq(a, Tail(b))

\* the reference reconstruction: the gaps of the original text between the
\* spans (ascending), interleaved with repls[i] for span i
RECURSIVE Simultaneous(_, _, _, _, _)
Simultaneous(text, es, repls, i, cursor) ==
    IF i > Len(es) THEN SliceFrom(text, cursor)
    ELSE SubSeq(text, cursor + 1, es[i].start) \o repls[i]
         \o Simultaneous(text, es, repls, i + 1, es[i].end)

Tag(e) == <<"<">> \o e.entity_type \o <<">">>

\* the characters the replacements of a request are made of; the texts of
\* Requests contain none of them
ReplacementChars == {"*", "<", ">", "_"} \cup Upper

\* the characters of an output that come from the original text
Kept(out) == SelectSeq(out, LAMBDA c : c \notin ReplacementChars)

Count(out, chars) == Len(SelectSeq(out, LAMBDA c : c \in chars))

RegisteredTypes == {PATTERNS[i].key : i \in DOMAIN PATTERNS}

----------------------------------------------------------------------------
(* Properties.                                                             *)

\* C1: no two spans of a returned span set intersect.
C1_NonOverlap == \A res \in Results : NonOverlapping(res[2])

\* C2: the rewritten text is the simultaneous substitution of all returned
\* spans against the original coordinates.
C2_OffsetSafety ==
    \A res \in Results :
        res[1] = Simultaneous(req[1].text, res[2],
                              [i \in DOMAIN res[2] |->
                                  Replacement(res[2][i], req[1].operator,
                                              req[1].mask_char, req[1].mask_len)],
                              1, 0)

\* C3: no character at a position covered by a reported span survives: the
\* original characters of the output all come from uncovered positions.
C3_NoLeak ==
    \A res \in Results : IsSubseq(Kept(res[1]), Uncovered(req[1].text, res[2]))

\* C4: every character at an uncovered position is still in the output, in
\* its original order.
C4_NoCorruption ==
    \A res \in Results : IsSubseq(Uncovered(req[1].text, res[2]), Kept(res[1]))

\* C5: preview's redacted_text equals apply's sanitized_text for the same
\* request.
C5_TextParity ==
    BothAnswered => preview_response.redacted_text = apply_response.sanitized_text

C5_Witness ==
    /\ BothAnswered
    /\ preview_response.entities # <<>>
    /\ preview_response.redacted_text # req[1].text
    /\ req[1].operator = "mask"

\* C6: preview's entities equal apply's entities_applied for the same request.
C6_EntitiesParity ==
    BothAnswered => preview_response.entities = apply_response.entities_applied

C6_Witness ==
    /\ BothAnswered
    /\ Truthy(req[1].entities)
    /\ Len(apply_response.entities_applied) >= 2

\* C7: with operator mask every span is replaced by mask_len mask characters.
C7_MaskWidth ==
    \A res \in Results :
        req[1].operator = "mask" =>
            Count(res[1], Range(req[1].mask_char)) = Len(res[2]) * req[1].mask_len

\* C8: with a non-empty allow-list every returned span, and every tag written
\* into the output, has a type of the allow-list.
C8_AllowList ==
    \A res \in Results :
        Truthy(req[1].entities) =>
            /\ \A i \in DOMAIN res[2] :
                    res[2][i].entity_type \in Range(req[1].entities.value)
            /\ req[1].operator = "replace" =>
                    \A i \in DOMAIN res[1] :
                        res[1][i] = "<" =>
                            \E t \in Range(req[1].entities.value) :
                                SubSeq(res[1], i, i + Len(t) + 1) = <<"<">> \o t \o <<">">>

C8_Witness ==
    /\ apply_response.status = 200
    /\ req[1].entities = Some(<<EMAIL>>)
    /\ req[1].operator = "replace"
    /\ apply_response.entities_applied # <<>>
    /\ find_entities(req[1].text, Some(<<PHONE>>)) # <<>>

\* C9 as stated: an allow-list that selects no registered recognizer, the
\* empty list included, gives an empty span set and the input unchanged.
SelectsNothing(allowed) ==
    ~allowed.is_none /\ Range(allowed.value) \cap RegisteredTypes = {}

C9_Original ==
    \A res \in Results :
        SelectsNothing(req[1].entities) => res[2] = <<>> /\ res[1] = req[1].text

\* C9 as amended: a non-empty allow-list naming only unregistered types gives
\* a normal response with an empty span set and the input unchanged.
C9_UnregisteredOnly ==
    (/\ req # <<>>
     /\ Authorized(req[1])
     /\ Truthy(req[1].entities)
     /\ SelectsNothing(req[1].entities)) =>
        /\ preview_response.status \in {0, 200}
        /\ apply_response.status \in {0, 200}
        /\ \A res \in Results : res[2] = <<>> /\ res[1] = req[1].text

C9_Witness ==
    /\ BothAnswered
    /\ req[1].entities = Some(<<ES_DNI>>)
    /\ find_entities(req[1].text, None) # <<>>
    /\ apply_response.sanitized_text = req[1].text

\* C10: with operator replace every span is replaced by exactly
\* "<" + entity_type + ">".
C10_ReplaceTag ==
    \A res \in Results :
        req[1].operator = "replace" =>
            res[1] = Simultaneous(req[1].text, res[2],
                                  [i \in DOMAIN res[2] |-> Tag(res[2][i])], 1, 0)

----------------------------------------------------------------------------
(* The documented contract (specification SpecContract) *)

\* the text of the end-to-end scenario and the output the spec gives for it
ScenarioText ==
    ScenarioFragments[1] \o ScenarioFragments[2] \o ScenarioFragments[3]
    \o ScenarioFragments[4] \o ScenarioFragments[5] \o ScenarioFragments[6]

ScenarioExpected == <<"C","o","n","t","a","c","t"," ","m","e"," ","a","t"," ","<","E","M","A","I","L",">"," ","o","r"," ","c","a","l","l"," ","<","P","H","O","N","E",">",","," ","c","a","r","d"," ","<","C","R","E","D","I","T","_","C","A","R","D",">">>

IsScenario(r) ==
    /\ r.text = ScenarioText
    /\ r.operator = "replace"
    /\ r.entities = None

\* C11: for the scenario text, operator replace and no allow-list, apply
\* returns exactly 'Contact me at <EMAIL> or call <PHONE>, card <CREDIT_CARD>',
\* having applied one EMAIL, one PHONE and one CREDIT_CARD span.
C11_Scenario ==
    (req # <<>> /\ IsScenario(req[1]) /\ apply_response.status = 200) =>
        /\ apply_response.sanitized_text = ScenarioExpected
        /\ [i \in DOMAIN apply_response.entities_applied |->
               apply_response.entities_applied[i].entity_type]
             = <<EMAIL, PHONE, CREDIT_CARD>>

C11_Witness ==
    /\ req # <<>>
    /\ IsScenario(req[1])
    /\ apply_response.status = 200
    /\ Len(apply_response.sanitized_text) < Len(req[1].text)

\* the raw matches of the active patterns, before any resolution
Candidates(r) == Range(AllHits(ActivePatterns(r.entities), r.text))

\* a is preferred to b: higher score, then longer
Preferred(a, b) ==
    \/ a.score > b.score
    \/ a.score = b.score /\ a.end - a.start >= b.end - b.start

\* C12: of two intersecting candidate spans only one is kept, and among
\* candidates starting at the same offset the kept one has the higher score,
\* then the greater length.
C12_OverlapByPriority ==
    \A res \in Results :
        \A a \in Candidates(req[1]) : \A b \in Candidates(req[1]) :
            (a # b /\ Intersect(a, b)) =>
                /\ ~(a \in Range(res[2]) /\ b \in Range(res[2]))
                /\ (a.start = b.start /\ b \in Range(res[2])) => Preferred(b, a)

KnownOperators == {"replace", "mask"}

\* the request was answered with a normal response by one of the handlers
Processed == preview_response.status = 200 \/ apply_response.status = 200

\* C13: a request whose operator is neither replace nor mask is rejected; it
\* is never answered as if the operator were a known one.
C13_UnknownOperatorRejected ==
    (req # <<>> /\ req[1].operator \notin KnownOperators) => ~Processed

\* C14: operator mask with a mask length that is not positive is rejected; no
\* output is produced.
C14_NonPositiveMaskRejected ==
    (req # <<>> /\ req[1].operator = "mask" /\ req[1].mask_len <= 0) => ~Processed

SupportedLanguages == {"en"}

\* C15: an unsupported language with an allow-list naming only unregistered
\* types (no active recognizer) is rejected, not answered with an empty result.
C15_NoRecognizerRejected ==
    (/\ req # <<>>
     /\ req[1].language \notin SupportedLanguages
     /\ Truthy(req[1].entities)
     /\ SelectsNothing(req[1].entities)) => ~Processed

\* the fields of an error response: nothing was detected or rewritten
IsError(resp, status) == resp.status = status /\ DOMAIN resp = {"status", "detail"}

\* the authorization carries a token that decodes and names its subject
TokenOk(a) == a.present /\ a.valid /\ a.sub # ""

PrivilegedRoles == {"expert", "moderator", "admin"}

\* C18: preview and apply answer with a result only for a caller whose token
\* decodes to roles containing expert, moderator or admin; a missing or
\* invalid token gives 401, a valid token without those roles 403, and those
\* responses carry no detection or rewriting result.
C18_RoleGate ==
    req # <<>> =>
        \A resp \in {preview_response, apply_response} :
            LET a == req[1].authorization
            IN resp.status # 0 =>
                 /\ resp.status = 200 <=> (TokenOk(a) /\ a.roles \cap PrivilegedRoles # {})
                 /\ ~TokenOk(a) => IsError(resp, 401)
                 /\ (TokenOk(a) /\ a.roles \cap PrivilegedRoles = {}) => IsError(resp, 403)

C18_Witness ==
    /\ req # <<>>
    /\ req[1].authorization.roles = {"user"}
    /\ IsError(preview_response, 403)
    /\ IsError(apply_response, 403)
    /\ find_entities(req[1].text, req[1].entities) # <<>>

\* the type a request is expected to report for a text that is one Spanish
\* identifier, addressed by its name or by no allow-list
SpanishIdOf(r) ==
    IF r.text = DniText /\ r.entities \in {None, Some(<<ES_DNI>>)} THEN <<ES_DNI>>
    ELSE IF r.text = IbanText /\ r.entities \in {None, Some(<<ES_IBAN>>)} THEN <<ES_IBAN>>
    ELSE <<>>

\* C19: the Spanish identifiers are addressed by the names ES_DNI and ES_IBAN:
\* an allow-list naming one selects it, the span is reported with that type and
\* replaced by '<ES_DNI>' or '<ES_IBAN>'.
C19_SpanishNames ==
    \A res \in Results :
        SpanishIdOf(req[1]) # <<>> =>
            /\ Len(res[2]) = 1
            /\ res[2][1].entity_type = SpanishIdOf(req[1])[1]
            /\ req[1].operator = "replace" => res[1] = Tag(res[2][1])

\* the order of characters by code point
CodeOrder == <<"0","1","2","3","4","5","6","7","8","9">> \o UpperSeq \o <<"_">> \o LowerSeq

Ord(c) == CHOOSE i \in DOMAIN CodeOrder : CodeOrder[i] = c

\* a < b as Python compares str
RECURSIVE StrLess(_, _)
StrLess(a, b) ==
    IF b = <<>> THEN FALSE
    ELSE IF a = <<>> THEN TRUE
    ELSE IF Head(a) # Head(b) THEN Ord(Head(a)) < Ord(Head(b))
    ELSE StrLess(Tail(a), Tail(b))

\* C20: GET /recognizers returns the registered type names without duplicates
\* and sorted ascending.
C20_SortedNoDuplicates ==
    recognizers_response.status = 200 =>
        LET tags == recognizers_response.entities
        IN /\ Range(tags) = RegisteredTypes
           /\ \A i \in DOMAIN tags : \A j \in DOMAIN tags :
                  i < j => StrLess(tags[i], tags[j])

----------------------------------------------------------------------------
(* The RAG pipeline (specification SpecRag) *)

\* the calls of the handler to the sanitize service, by position in the log
SanitizeCalls == {i \in DOMAIN rag_log : rag_log[i].call = "sanitize"}

\* the sanitize call did not give a 2xx answer
CallFailed(e) ==
    \/ e.net # "ok"
    \/ SanitizePost(e.text, e.authorization, e.net).status >= 300

\* C16: when a sanitize call fails (non-2xx answer) or the service cannot be
\* reached, the helper returns the original text and the query still
\* completes with a normal response.
C16_SoftFail ==
    \A i \in SanitizeCalls :
        CallFailed(rag_log[i]) =>
            /\ ~rag_log[i].raised
            /\ rag_log[i].returned = rag_log[i].text
            /\ rag_pc = "done" => rag_response.status = 200

Generated == {"llm", "mock"}

\* C17: with sanitize_in the sanitize call on the question comes before
\* retrieval and generation, which receive what it returned; with sanitize_out
\* the sanitize call on the generated answer comes after generation and before
\* the response, which carries what it returned; every sanitize call carries
\* the caller's own bearer token.
C17_SanitizeOrder ==
    rag_req # <<>> =>
        LET r == rag_req[1]
        IN /\ \A i \in SanitizeCalls :
                  rag_log[i].authorization = r.authorization /\ r.authorization.present
           /\ r.sanitize_in =>
                  \A i \in DOMAIN rag_log :
                      rag_log[i].call \in Generated \cup {"embed"} =>
                          \E j \in SanitizeCalls :
                              /\ j < i
                              /\ rag_log[j].text = r.question
                              /\ rag_log[i].text = rag_log[j].returned
           /\ r.sanitize_out =>
                  \A i \in DOMAIN rag_log :
                      rag_log[i].call = "return" =>
                          \E j \in SanitizeCalls : \E g \in DOMAIN rag_log :
                              /\ g < j /\ j < i
                              /\ rag_log[g].call \in Generated
                              /\ rag_log[j].text = rag_log[g].returned
                              /\ rag_log[i].text = rag_log[j].returned
                              /\ rag_response.answer = rag_log[j].returned

C17_Witness ==
    /\ rag_app = "main"
    /\ rag_pc = "done"
    /\ rag_response.status = 200
    /\ rag_req[1].sanitize_in /\ rag_req[1].sanitize_out
    /\ Cardinality(SanitizeCalls) = 2
    /\ rag_q # rag_req[1].question
    /\ rag_response.answer \notin Answers

----------------------------------------------------------------------------
(* The reported spans (specification SpecContract) *)

\* C24: the span list of every response is in ascending order of start,
\* whatever the order in which the patterns produced the matches.
C24_SortedByStart ==
    \A res \in Results :
        \A i \in DOMAIN res[2] : \A j \in DOMAIN res[2] :
            i < j => res[2][i].start <= res[2][j].start

C24_Witness ==
    \E res \in Results :
        /\ Len(res[2]) >= 2
        /\ res[2] # AllHits(ActivePatterns(req[1].entities), req[1].text)

\* C25: every reported entity has 0 <= start < end <= len(text) for the text
\* of the request.
C25_SpanBounds ==
    \A res \in Results :
        \A i \in DOMAIN res[2] :
            /\ 0 <= res[2][i].start
            /\ res[2][i].start < res[2][i].end
            /\ res[2][i].end <= Len(req[1].text)

C25_Witness ==
    \E res \in Results :
        \E i \in DOMAIN res[2] :
            res[2][i].start > 0 /\ res[2][i].end = Len(req[1].text)

\* text[start:end] of a Python str
Slice(text, start, end) == SubSeq(text, start + 1, Min(end, Len(text)))

\* C26: the text field of every reported entity is the slice [start, end) of
\* the request text as it was before rewriting.
C26_OriginalSnippet ==
    \A res \in Results :
        \A i \in DOMAIN res[2] :
            res[2][i].text = Slice(req[1].text, res[2][i].start, res[2][i].end)

C26_Witness ==
    /\ apply_response.status = 200
    /\ \E i \in DOMAIN apply_response.entities_applied :
           LET h == apply_response.entities_applied[i]
           IN /\ h.start > 0
              /\ h.text # Slice(apply_response.sanitized_text, h.start, h.end)

\* an allow-list that names every registered type, in the reverse order
AllTypesReversed ==
    Some([i \in DOMAIN PATTERNS |-> PATTERNS[Len(PATTERNS) + 1 - i].key])

\* C27: a request without allow-list gets the result of the same request with
\* an allow-list naming all the registered types.
C27_OmittedIsAll ==
    (req # <<>> /\ req[1].entities = None) =>
        /\ preview_response.status = 200 =>
               preview_response = PreviewOf([req[1] EXCEPT !.entities = AllTypesReversed])
        /\ apply_response.status = 200 =>
               apply_response = ApplyOf([req[1] EXCEPT !.entities = AllTypesReversed])

C27_Witness ==
    /\ req # <<>>
    /\ req[1].entities = None
    /\ BothAnswered
    /\ Cardinality({preview_response.entities[i].entity_type :
                       i \in DOMAIN preview_response.entities}) >= 3

\* what POST /sanitize/apply makes of a text with operator replace
ApplyOutput(text) ==
    apply_sanitization(text, find_entities(text, None), "replace", <<"*">>, DefaultMaskLen)

\* the caller is admitted by /rag/query
Admitted(r) == TokenOk(r.authorization) /\ r.authorization.roles \cap RagRoles # {}

\* C28: for every caller admitted by /rag/query, with sanitize_in and
\* sanitize_out set and the sanitize service reachable and healthy, the
\* question given to retrieval and generation and the answer returned are the
\* outputs of the sanitize service's apply; forwarding the caller's token never
\* makes sanitization be skipped.
C28_NotSkipped ==
    (/\ rag_req # <<>>
     /\ Admitted(rag_req[1])
     /\ rag_req[1].sanitize_in /\ rag_req[1].sanitize_out
     /\ \A i \in SanitizeCalls : rag_log[i].net = "ok") =>
        /\ \A i \in SanitizeCalls :
               rag_log[i].returned = ApplyOutput(rag_log[i].text)
        /\ \A i \in DOMAIN rag_log :
               rag_log[i].call \in Generated \cup {"embed"} =>
                   rag_log[i].text = ApplyOutput(rag_req[1].question)
        /\ rag_response.status = 200 =>
               \E g \in DOMAIN rag_log :
                   /\ rag_log[g].call \in Generated
                   /\ rag_response.answer = ApplyOutput(rag_log[g].returned)

\* C29: in the response question_sanitized is null exactly when sanitize_in
\* is false, and with sanitize_in it is the question that was given to
\* retrieval and to generation.
C29_QuestionSanitized ==
    (rag_req # <<>> /\ rag_response.status = 200) =>
        /\ rag_response.question_sanitized.is_none <=> ~rag_req[1].sanitize_in
        /\ rag_req[1].sanitize_in =>
               \A i \in DOMAIN rag_log :
                   rag_log[i].call \in Generated \cup {"embed"} =>
                       rag_log[i].text = rag_response.question_sanitized.value

C29_Witness ==
    /\ rag_req # <<>>
    /\ rag_response.status = 200
    /\ rag_req[1].sanitize_in
    /\ ~rag_response.question_sanitized.is_none
    /\ rag_response.question_sanitized.value # rag_req[1].question

----------------------------------------------------------------------------
(* The object names of the files service (specification SpecFiles) *)

\* s holds two dots in a row
HasDotDot(s) == \E i \in 1..(Len(s) - 1) : s[i] = "." /\ s[i + 1] = "."

\* C30: for every name, sanitize_object_name raises 400 'Invalid filename' or
\* returns a non-empty name of characters of [a-zA-Z0-9._/-] without '..'; no
\* other name reaches upload, presign or delete.
C30_SafeObjectName ==
    \/ files_response.status \in {0, 401, 403, 415}
    \/ files_response.status = 400 /\ files_response.detail = "Invalid filename"
    \/ /\ files_response.status = 200
       /\ files_response.object_name # <<>>
       /\ Range(files_response.object_name) \subseteq SafeNameChars
       /\ ~HasDotDot(files_response.object_name)
----------------------------------------------------------------------------
(* The Presidio variant: failures of the build and concurrent requests.    *)

\* the positions of the log where one of the operations happened
StepsOf(ops) == {i \in DOMAIN steps : steps[i].op \in ops}

----------------------------------------------------------------------------
(* Statelessness over the calls of one process.                            *)

\* the answer of the route to the request in a process that has served nothing
Fresh(call) ==
    IF call.route = "preview" THEN PreviewOf(call.request) ELSE ApplyOf(call.request)

\* C23: a preview or apply call is stateless and deterministic: whatever calls
\* came before, its result is the one a fresh process gives to the same text
\* and config, a repeated call gets the same result, and the pattern table of
\* the process is left as it was.
C23_Stateless ==
    /\ pattern_table = PATTERNS
    /\ \A i \in DOMAIN calls : calls[i].response = Fresh(calls[i])
    /\ \A i, j \in DOMAIN calls :
        calls[i].route = calls[j].route /\ calls[i].request = calls[j].request
            => calls[i].response = calls[j].response

\* a call restricted by an allow-list is followed by an apply of the same text
\* without one, which finds both entities of the text
C23_Witness ==
    /\ Len(calls) = 2
    /\ calls[1].request.text = calls[2].request.text
    /\ Truthy(calls[1].request.entities)
    /\ ~Truthy(calls[2].request.entities)
    /\ calls[1].response.status = 200
    /\ calls[2].response.status = 200
    /\ calls[2].route = "apply"
    /\ Len(calls[2].response.entities_applied) = 2

====
